---- MODULE Spec2Model ----
(***************************************************************************)
(* Model of src/drone.py: the Drone class, its constructor and its         *)
(* methods, as a caller of a Drone instance observes them.  Every method   *)
(* call is one action; the action records which method was called, with    *)
(* which arguments, whether it returned or raised, and what it returned.   *)
(*                                                                         *)
(* Numbers are exact rationals [n, d] (Python floats without rounding).    *)
(* Python exceptions are the strings "TypeError", "NameError",             *)
(* "AttributeError"; "none" is a normal return.                            *)
(***************************************************************************)
EXTENDS Integers, Sequences, FiniteSets, TLC

VARIABLES drone, op, arg, exc, ret, calls, freeTicks

vars == <<drone, op, arg, exc, ret, calls, freeTicks>>

----------------------------------------------------------------------------
(* Bounds of the model *)

MaxCalls == 2
MaxLen == 5

(* The rotor count tested by change_rotor_speed *)
NumRotors == 4

----------------------------------------------------------------------------
(* Rational arithmetic standing for Python's float arithmetic *)

Abs(i) == IF i < 0 THEN -i ELSE i

RECURSIVE GCD(_, _)
GCD(a, b) == IF b = 0 THEN a ELSE GCD(b, a % b)

Rat(n, d) ==
    LET s == IF d < 0 THEN -1 ELSE 1
        k == GCD(Abs(n), Abs(d))
    IN [n |-> (s * n) \div k, d |-> (s * d) \div k]

RatInt(i) == [n |-> i, d |-> 1]

RatAdd(a, b) ==
    LET l == (a.d * b.d) \div GCD(a.d, b.d)
    IN Rat(a.n * (l \div a.d) + b.n * (l \div b.d), l)

RatNeg(a) == [n |-> -a.n, d |-> a.d]

RatSub(a, b) == RatAdd(a, RatNeg(b))

RatMul(a, b) ==
    LET k1 == GCD(Abs(a.n), b.d)
        k2 == GCD(Abs(b.n), a.d)
    IN Rat((a.n \div k1) * (b.n \div k2), (a.d \div k2) * (b.d \div k1))

RatDiv(a, b) == RatMul(a, Rat(b.d, b.n))

RECURSIVE RatSum(_)
RatSum(s) == IF s = <<>> THEN RatInt(0) ELSE RatAdd(Head(s), RatSum(Tail(s)))

----------------------------------------------------------------------------
(* The Vector collaborator: a zero-default 3-tuple with +, * and /          *)

Vector(x, y, z) == [x |-> x, y |-> y, z |-> z]

Vector0 == Vector(RatInt(0), RatInt(0), RatInt(0))

VecAdd(a, b) == Vector(RatAdd(a.x, b.x), RatAdd(a.y, b.y), RatAdd(a.z, b.z))

VecMul(a, k) == Vector(RatMul(a.x, k), RatMul(a.y, k), RatMul(a.z, k))

VecDiv(a, k) == Vector(RatDiv(a.x, k), RatDiv(a.y, k), RatDiv(a.z, k))

----------------------------------------------------------------------------
(* Constants of the source.  math.pi is taken as the rational 355/113;    *)
(* every force is a rational multiple of it.                              *)

pi == Rat(355, 113)

drag_coef == Rat(5, 100)

air_density == Rat(1225, 1000)

g_default == Rat(-981, 100)

(* Constructor arguments tried: the defaults and one other value each *)
Radii == {1, 15}
Weights == {2, 50}
Sizes == {2, 10}
InertiasXX == {1, 2}
InertiasZZ == {1}
InertiasR == {1}

(* Speed sequences handed to the setter and to update *)
Speeds == {0, 10}

SpeedSeqs == UNION {[1..n -> Speeds] : n \in (NumRotors - 1)..MaxLen}

Dts == {1, 2}

Gravities == {RatInt(0), g_default}

----------------------------------------------------------------------------
(* Results of calls *)

Return(v) == [exc |-> "none", val |-> v]

Raise(e, v) == [exc |-> e, val |-> v]

NoArg == [dt |-> 0, g |-> RatInt(0), given |-> FALSE, speeds |-> <<>>,
          front |-> 0, back |-> 0, bound |-> TRUE]

NoRet == [kind |-> "none", num |-> RatInt(0), list |-> <<>>]

NumRet(v) == [kind |-> "num", num |-> v, list |-> <<>>]

ListRet(l) == [kind |-> "list", num |-> RatInt(0), list |-> l]

----------------------------------------------------------------------------
(* Drone.__init__ *)

Drone(rotor_radius, weight, size, m_of_i_xx, m_of_i_zz, m_of_i_r) ==
    [rotation |-> Vector0,
     rotation_velocity |-> Vector0,
     pos |-> Vector0,
     velocity |-> Vector0,
     r_speed |-> <<0, 0, 0, 0>>,
     r |-> rotor_radius,
     weight |-> weight,
     size |-> size,
     m_of_i_xx |-> m_of_i_xx,
     m_of_i_zz |-> m_of_i_zz,
     m_of_i_r |-> m_of_i_r]

(* The attributes __init__ sets.  roll, pitch and yaw are not among them. *)
Attributes == {"rotation", "rotation_velocity", "pos", "velocity", "r_speed",
               "r", "weight", "size", "m_of_i_xx", "m_of_i_zz", "m_of_i_r"}

(* Names bound at module level by the imports of drone.py.  np and self   *)
(* are not among them.                                                     *)
Globals == {"Vector", "pi", "cos", "sin", "Drone"}

----------------------------------------------------------------------------
(* Drone.calc_rotor_force *)

calc_rotor_force(d, speed) ==
    RatMul(RatMul(RatMul(RatMul(drag_coef, air_density), pi),
                  RatInt(d.r * d.r * d.r)),
           RatInt(speed))

(* Drone.change_rotor_speed(r_speed), declared without self.  bound: the  *)
(* call goes through an instance, which passes the instance as a first    *)
(* positional argument in front of r_speed.  Returns the outcome and the  *)
(* r_speed attribute of the drone after the call.                         *)
change_rotor_speed_mut(bound, r_speed, d) ==
    Return([d EXCEPT !.r_speed = r_speed])

change_rotor_speed(bound, r_speed, d) ==
    IF bound
    THEN Raise("TypeError", d)
    ELSE IF Len(r_speed) = NumRotors
         THEN IF "self" \in Globals
              THEN Return([d EXCEPT !.r_speed = r_speed])
              ELSE Raise("NameError", d)
         ELSE Return(d)

(* Drone.calc_thrust: the rotor forces are summed, then np is looked up   *)
calc_thrust(d) ==
    LET total_force == RatSum([i \in 1..Len(d.r_speed) |->
                                  calc_rotor_force(d, d.r_speed[i])])
    IN IF "np" \in Globals
       THEN Return(Vector(RatInt(0), RatInt(0), total_force))
       ELSE Raise("NameError", Vector0)

(* Drone.calc_rotation *)
calc_rotation(d, front_speed, back_speed) ==
    LET front_force == calc_rotor_force(d, front_speed)
        back_force == calc_rotor_force(d, back_speed)
        total_force == RatSub(front_force, back_force)
        torque == RatDiv(RatMul(total_force, RatInt(d.size)), RatInt(2))
        rotation == RatDiv(torque, RatInt(d.m_of_i_xx))
    IN rotation

(* Drone.calc_yaw: a list is multiplied in place by a list *)
calc_yaw(d) ==
    LET angular_momentum == [i \in 1..Len(d.r_speed) |->
                                 d.m_of_i_r * d.r_speed[i]]
    IN Raise("TypeError", RatInt(0))

(* Drone.get_params: the first six entries are read, then self.roll *)
get_params(d) ==
    LET head == <<d.pos.x, d.pos.y, d.pos.z,
                  d.velocity.x, d.velocity.y, d.velocity.z>>
    IN IF {"roll", "pitch", "yaw"} \subseteq Attributes
       THEN Return(head \o <<d.rotation.x, d.rotation.y, d.rotation.z>>)
       ELSE Raise("AttributeError", <<>>)

(* Drone.update: returns the outcome and the drone after the call *)
update_mut(d, dt, g, given, r_speed) ==
    LET gravity == Vector(RatInt(0), RatInt(0), g_default)
        acceleration == VecDiv(gravity, RatInt(d.weight))
    IN Raise("NameError",
             [d EXCEPT !.pos = VecAdd(d.pos, VecMul(d.velocity, RatInt(dt))),
                       !.velocity = VecAdd(d.velocity,
                                           VecMul(acceleration, RatInt(dt)))])

update(d, dt, g, given, r_speed) ==
    LET set == IF given THEN change_rotor_speed(TRUE, r_speed, d)
                        ELSE Return(d)
    IN IF set.exc # "none" THEN Raise(set.exc, set.val)
       ELSE
       LET d1 == set.val
           thrust == calc_thrust(d1)
       IN IF thrust.exc # "none" THEN Raise(thrust.exc, d1)
          ELSE
          LET gravity == Vector(RatInt(0), RatInt(0), g)
              total_force == VecAdd(thrust.val, gravity)
              acceleration == VecDiv(total_force, RatInt(d1.weight))
              roll == calc_rotation(d1, d1.r_speed[1], d1.r_speed[4])
              pitch == calc_rotation(d1, d1.r_speed[2], d1.r_speed[3])
              yaw == calc_yaw(d1)
          IN IF yaw.exc # "none" THEN Raise(yaw.exc, d1)
             ELSE Return(
                 [d1 EXCEPT
                    !.pos = VecAdd(d1.pos, VecMul(d1.velocity, RatInt(dt))),
                    !.velocity = VecAdd(d1.velocity,
                                        VecMul(acceleration, RatInt(dt)))])

----------------------------------------------------------------------------
(* The state machine: construction, then any method call *)

Init ==
    /\ \E rotor_radius \in Radii, weight \in Weights, size \in Sizes,
          m_of_i_xx \in InertiasXX, m_of_i_zz \in InertiasZZ,
          m_of_i_r \in InertiasR :
          drone = Drone(rotor_radius, weight, size,
                        m_of_i_xx, m_of_i_zz, m_of_i_r)
    /\ op = "__init__"
    /\ arg = NoArg
    /\ exc = "none"
    /\ ret = NoRet
    /\ calls = 0
    /\ freeTicks = 0

Called(name, a) ==
    /\ calls < MaxCalls
    /\ calls' = calls + 1
    /\ op' = name
    /\ arg' = a

(* drone.change_rotor_speed(speeds) *)
ChangeRotorSpeed ==
    \E speeds \in SpeedSeqs :
        LET res == change_rotor_speed(TRUE, speeds, drone)
        IN /\ Called("change_rotor_speed",
                     [NoArg EXCEPT !.given = TRUE, !.speeds = speeds])
           /\ drone' = res.val
           /\ exc' = res.exc
           /\ ret' = NoRet
           /\ UNCHANGED freeTicks

(* Drone.change_rotor_speed(speeds), through the class *)
ChangeRotorSpeedUnbound ==
    \E speeds \in SpeedSeqs :
        LET res == change_rotor_speed(FALSE, speeds, drone)
        IN /\ Called("change_rotor_speed",
                     [NoArg EXCEPT !.given = TRUE, !.speeds = speeds,
                                   !.bound = FALSE])
           /\ drone' = res.val
           /\ exc' = res.exc
           /\ ret' = NoRet
           /\ UNCHANGED freeTicks

(* drone.update(dt, g) and drone.update(dt, g, speeds) *)
Update ==
    \E dt \in Dts, g \in Gravities, speeds \in SpeedSeqs \cup {<<>>} :
        /\ LET given == speeds # <<>>
               res == update(drone, dt, g, given, speeds)
           IN /\ Called("update",
                        [NoArg EXCEPT !.dt = dt, !.g = g, !.given = given,
                                      !.speeds = speeds])
              /\ drone' = res.val
              /\ exc' = res.exc
              /\ ret' = NoRet
              /\ freeTicks' = IF g = RatInt(0) /\ ~given
                              THEN freeTicks + 1 ELSE freeTicks

(* drone.calc_thrust() *)
CalcThrust ==
    LET res == calc_thrust(drone)
    IN /\ Called("calc_thrust", NoArg)
       /\ exc' = res.exc
       /\ ret' = NoRet
       /\ UNCHANGED <<drone, freeTicks>>

(* drone.calc_rotation(front, back) *)
CalcRotation ==
    \E front \in Speeds, back \in Speeds :
        /\ Called("calc_rotation",
                  [NoArg EXCEPT !.front = front, !.back = back])
        /\ exc' = "none"
        /\ ret' = NumRet(calc_rotation(drone, front, back))
        /\ UNCHANGED <<drone, freeTicks>>

(* drone.calc_yaw() *)
CalcYaw ==
    LET res == calc_yaw(drone)
    IN /\ Called("calc_yaw", NoArg)
       /\ exc' = res.exc
       /\ ret' = IF res.exc = "none" THEN NumRet(res.val) ELSE NoRet
       /\ UNCHANGED <<drone, freeTicks>>

(* drone.calc_rotor_force(speed) *)
CalcRotorForce ==
    \E speed \in Speeds :
        /\ Called("calc_rotor_force", [NoArg EXCEPT !.front = speed])
        /\ exc' = "none"
        /\ ret' = NumRet(calc_rotor_force(drone, speed))
        /\ UNCHANGED <<drone, freeTicks>>

(* drone.get_params() *)
GetParams ==
    LET res == get_params(drone)
    IN /\ Called("get_params", NoArg)
       /\ exc' = res.exc
       /\ ret' = IF res.exc = "none" THEN ListRet(res.val) ELSE NoRet
       /\ UNCHANGED <<drone, freeTicks>>

Next ==
    \/ ChangeRotorSpeed
    \/ ChangeRotorSpeedUnbound
    \/ Update
    \/ CalcThrust
    \/ CalcRotation
    \/ CalcYaw
    \/ CalcRotorForce
    \/ GetParams

Spec == Init /\ [][Next]_vars

----------------------------------------------------------------------------
(* Helpers of the properties *)

(* A call of the named method is the step being taken *)
Calling(name) == calls' = calls + 1 /\ op' = name

AllEqual(s) == \A i \in 1..Len(s) : s[i] = s[1]

(* The thrust of §4.1 at zero orientation: the four rotor forces along z *)
ThrustAtRest(d, speeds) ==
    Vector(RatInt(0), RatInt(0),
           RatSum([i \in 1..Len(speeds) |-> calc_rotor_force(d, speeds[i])]))

(* The yaw rate of §4.1: signs +, -, +, - over rotorInertia * speed *)
YawRate(d, speeds) ==
    Rat(d.m_of_i_r * (speeds[1] - speeds[2] + speeds[3] - speeds[4]),
        d.m_of_i_zz)

RateVector(d, speeds) ==
    Vector(calc_rotation(d, speeds[1], speeds[4]),
           calc_rotation(d, speeds[2], speeds[3]),
           YawRate(d, speeds))

----------------------------------------------------------------------------
(* C1: calling the setter on a drone with a sequence whose length is not  *)
(* 4 raises no error and changes no field of the drone.                   *)
C1_SetterWrongLengthIsNoOp ==
    [][(Calling("change_rotor_speed") /\ arg'.bound
            /\ Len(arg'.speeds) # NumRotors)
        => (exc' = "none" /\ drone' = drone)]_vars

(* C2: in every reachable state the stored rotor speeds have exactly 4    *)
(* elements, whatever lengths were handed to the setter and to update.    *)
C2_FourRotorSpeeds == Len(drone.r_speed) = NumRotors

C2_Witness ==
    /\ op \in {"change_rotor_speed", "update"}
    /\ arg.given
    /\ arg.bound
    /\ Len(arg.speeds) # NumRotors
    /\ calls = MaxCalls
    /\ Len(drone.r_speed) = NumRotors

(* C3: update, called without speeds or with 4 speeds, returns normally.  *)
C3_TickReturns ==
    (op = "update" /\ (arg.given => Len(arg.speeds) = NumRotors))
        => exc = "none"

(* C4: from construction, after any number of update calls with g = 0     *)
(* and no speeds argument, position and velocity are the zero vector.     *)
C4_NoSpuriousForce ==
    (calls = freeTicks) => (drone.pos = Vector0 /\ drone.velocity = Vector0)

C4_Witness ==
    /\ op = "update"
    /\ calls = freeTicks
    /\ freeTicks >= 2
    /\ drone.pos = Vector0
    /\ drone.velocity = Vector0

(* C5: one update is a forward Euler step: the new position is the old    *)
(* position plus the old velocity times dt, and the new velocity is the   *)
(* old velocity plus the acceleration (net force / weight) times dt.      *)
C5_EulerStep ==
    [][(Calling("update") /\ ~arg'.given)
        => LET net == VecAdd(ThrustAtRest(drone, drone.r_speed),
                             Vector(RatInt(0), RatInt(0), arg'.g))
               acceleration == VecDiv(net, RatInt(drone.weight))
           IN /\ drone'.pos = VecAdd(drone.pos,
                                     VecMul(drone.velocity, RatInt(arg'.dt)))
              /\ drone'.velocity = VecAdd(drone.velocity,
                                          VecMul(acceleration,
                                                 RatInt(arg'.dt)))]_vars

(* C6: get_params returns the 9 scalars pos.x, pos.y, pos.z, velocity.x,  *)
(* velocity.y, velocity.z, roll, pitch, yaw, equal to the fields, and     *)
(* changes no state.                                                      *)
C6_GetStateSnapshot ==
    [][Calling("get_params")
        => /\ exc' = "none"
           /\ ret' = ListRet(<<drone.pos.x, drone.pos.y, drone.pos.z,
                               drone.velocity.x, drone.velocity.y,
                               drone.velocity.z, drone.rotation.x,
                               drone.rotation.y, drone.rotation.z>>)
           /\ drone' = drone]_vars

(* C7: update with a 4-element speeds argument stores the new speeds      *)
(* before the forces are computed: after the call the stored speeds are   *)
(* the argument and the velocity has moved by the acceleration that the   *)
(* new speeds give.                                                       *)
C7_SpeedsAppliedBeforeForces ==
    [][(Calling("update") /\ arg'.given /\ Len(arg'.speeds) = NumRotors)
        => LET net == VecAdd(ThrustAtRest(drone, arg'.speeds),
                             Vector(RatInt(0), RatInt(0), arg'.g))
               acceleration == VecDiv(net, RatInt(drone.weight))
           IN /\ drone'.r_speed = arg'.speeds
              /\ drone'.velocity = VecAdd(drone.velocity,
                                          VecMul(acceleration,
                                                 RatInt(arg'.dt)))]_vars

(* C8: when the four stored rotor speeds are equal, the roll rate and     *)
(* the pitch rate (calc_rotation of an equal pair) and the yaw rate       *)
(* (calc_yaw) are all exactly zero.                                       *)
C8_SymmetricRatesAreZero ==
    AllEqual(drone.r_speed)
        => /\ (op = "calc_rotation" /\ arg.front = arg.back)
                  => (exc = "none" /\ ret = NumRet(RatInt(0)))
           /\ op = "calc_yaw"
                  => (exc = "none" /\ ret = NumRet(RatInt(0)))

(* C9: gravity enters the net force as (0, 0, mass * g), so with zero     *)
(* thrust one update changes velocity.z by g * dt whatever the mass.      *)
C9_GravityScaledByMass ==
    [][(Calling("update") /\ ~arg'.given
            /\ ThrustAtRest(drone, drone.r_speed) = Vector0)
        => drone'.velocity.z = RatAdd(drone.velocity.z,
                                      RatMul(arg'.g, RatInt(arg'.dt)))]_vars

(* C10: an update whose rotor speeds give a non-zero roll, pitch or yaw   *)
(* rate moves the stored orientation by rate * dt.                        *)
C10_OrientationIntegrated ==
    [][(Calling("update") /\ arg'.given /\ Len(arg'.speeds) = NumRotors
            /\ RateVector(drone, arg'.speeds) # Vector0)
        => drone'.rotation = VecAdd(drone.rotation,
                                    VecMul(RateVector(drone, arg'.speeds),
                                           RatInt(arg'.dt)))]_vars

====
